---------------------------- MODULE Spec2Model ----------------------------
(***************************************************************************)
(* A model of the PropScraper repository:                                  *)
(*   - the Bayut scraper (class MagnoliaScraper and main): the price-band  *)
(*     partition plan, the retrying transport _make_request, the page loop *)
(*     of price_range_scrape, the normalize / filter / write block and the *)
(*     consolidation combine_csv_files;                                    *)
(*   - the PropertyFinder scraper: fetch_listings_from_page and the page   *)
(*     loop of scrape_properties.                                          *)
(* The variable script says which of the two scripts runs; SpecPlan checks *)
(* the partition plan as a pure function of a price.                       *)
(***************************************************************************)
EXTENDS Integers, Sequences, FiniteSets, TLC

(***************************************************************************)
(* Bounds of the model.                                                    *)
(***************************************************************************)
\* the run iterates over the first NumPartitions entries of price_ranges
NumPartitions == 2
\* the max_pages argument of price_range_scrape
MaxPagesArg == 3
\* the number of result pages the PropertyFinder source can serve
SourcePages == 3
\* how many times the consolidation is run over the output folder
MaxCombines == 2
\* prices are probed this far on either side of every band boundary
PriceMargin == 2
\* the save block is run on batches of up to this many listings
MaxBatch == 2
\* the endless source's pages are told apart up to this one
PageCap == 3
\* a hierarchy walk is run on lists of up to this many elements
MaxNodes == 2

(***************************************************************************)
(* Program constants.                                                      *)
(***************************************************************************)
max_retries == 3
retry_delay == 2
PageDelay == 1
PFRetryLimit == 3
PFRetryDelay == 2
PFPageDelay == 1
FirstPFPage == 1

None == "None"
TargetCity == "Dubai"

(***************************************************************************)
(* The partition plan: price_ranges of price_range_scrape.  A filter       *)
(* "price >= lo AND price < hi" is kept as its two comparisons; hasLo /    *)
(* hasHi say which of them the filter string holds.                        *)
(***************************************************************************)
Band(label, lo, hi) ==
    [label |-> label, hasLo |-> TRUE, lo |-> lo, hasHi |-> TRUE, hi |-> hi]

\* a plan whose lower bounds were moved down onto the previous band's upper
\* bound while mid_range3 kept its upper bound of 150001
price_ranges_lowered ==
    << [label |-> "budget", hasLo |-> FALSE, lo |-> 0, hasHi |-> TRUE, hi |-> 20000],
       Band("budget2", 20000, 35000),
       Band("budget3", 35000, 50000),
       Band("mid_range", 50000, 75000),
       Band("mid_range2", 75000, 100000),
       Band("mid_range22", 100000, 120000),
       Band("mid_range3", 120000, 150001),
       Band("mid_range4", 150000, 200000),
       Band("mid_range5", 200000, 250000),
       Band("mid_range6", 250000, 275000),
       Band("mid_range7", 275000, 300000),
       Band("mid_range8", 300000, 400000),
       Band("mid_range9", 400000, 500000),
       Band("mid_range10", 500000, 600000),
       [label |-> "ultra_luxury", hasLo |-> TRUE, lo |-> 600000, hasHi |-> FALSE, hi |-> 0] >>

price_ranges ==
    << [label |-> "budget", hasLo |-> FALSE, lo |-> 0, hasHi |-> TRUE, hi |-> 20000],
       Band("budget2", 20001, 35000),
       Band("budget3", 35001, 50000),
       Band("mid_range", 50001, 75000),
       Band("mid_range2", 75001, 100000),
       Band("mid_range22", 100001, 120000),
       Band("mid_range3", 120001, 150001),
       Band("mid_range4", 150001, 200000),
       Band("mid_range5", 200001, 250000),
       Band("mid_range6", 250001, 275000),
       Band("mid_range7", 275001, 300000),
       Band("mid_range8", 300001, 400000),
       Band("mid_range9", 400001, 500000),
       Band("mid_range10", 500001, 600000),
       [label |-> "ultra_luxury", hasLo |-> TRUE, lo |-> 600001, hasHi |-> FALSE, hi |-> 0] >>

\* the source's evaluation of one price filter on a listing's price
Matches(p, r) == (r.hasLo => p >= r.lo) /\ (r.hasHi => p < r.hi)

\* the indices of the partitions whose query returns a listing of price p
MatchingPartitions(p) == {i \in DOMAIN price_ranges : Matches(p, price_ranges[i])}

\* every number that appears in a filter of the plan
Boundaries ==
    {price_ranges[i].lo : i \in {j \in DOMAIN price_ranges : price_ranges[j].hasLo}}
        \cup {price_ranges[i].hi : i \in {j \in DOMAIN price_ranges : price_ranges[j].hasHi}}

\* the prices probed: 0 and the neighbourhood of every boundary (a filter's
\* answer changes only at a boundary)
PriceProbes ==
    {0} \cup {p \in UNION {(b - PriceMargin)..(b + PriceMargin) : b \in Boundaries} : p >= 0}

(***************************************************************************)
(* Raw listings of the Bayut source (Algolia hits).  A listing is a        *)
(* mapping from the keys it holds to values; a nested value carries its    *)
(* Python type in t (dict, list, str) and its content in v.  A key a       *)
(* listing lacks is NaN in the DataFrame built from the batch.             *)
(***************************************************************************)
NaN == [t |-> "nan"]
Dict(d) == [t |-> "dict", v |-> d]
List(s) == [t |-> "list", v |-> s]
Str(s) == [t |-> "str", v |-> s]

LocationNode(level, externalID, name) ==
    Dict([level |-> level, externalID |-> externalID, name |-> name])

\* the columns df[desired_columns] takes straight from the source
ScalarColumns ==
    {"objectID", "referenceNumber", "permitNumber", "title", "purpose", "price",
     "rentFrequency", "rooms", "baths", "area", "plotArea", "furnishingStatus",
     "amenities", "contactName", "phoneNumber", "completionStatus", "externalID"}

CityNode(name) == LocationNode(1, "c-" \o name, name)
DistrictNode == LocationNode(2, "d-7", "Marina")

\* a complete listing of the given city, with location nodes at levels 1 and 2
FullListing(id, city) ==
    [c \in ScalarColumns |-> IF c = "objectID" THEN id ELSE c \o "-" \o id]
    @@ [geography |-> Dict([lat |-> "25.1", lng |-> "55.2"]),
        location |-> List(<<CityNode(city), DistrictNode>>),
        category |-> List(<<LocationNode(0, "t-1", "Residential"),
                            LocationNode(1, "s-4", "Apartment")>>),
        agency |-> Dict([name |-> "agency-" \o id]),
        extraFields |-> Dict([dldBuildingNK |-> "b-" \o id, dldPropertySK |-> "p-" \o id]),
        createdAt |-> 1700000000,
        updatedAt |-> 1700000500]

\* the nested fields a listing of the source may come without
OptionalFields ==
    {"geography", "location", "category", "agency", "extraFields", "createdAt",
     "updatedAt"}

\* the listing r without the given keys
Without(r, keys) == [c \in DOMAIN r \ keys |-> r[c]]

\* the listing the source stub serves: kind says what it looks like
MakeListing(kind, id) ==
    CASE kind = "dubai" -> FullListing(id, TargetCity)
      [] kind = "other" -> FullListing(id, "Abu Dhabi")
      [] kind = "malformed" ->
            [FullListing(id, TargetCity) EXCEPT
                !.location = List(<<CityNode(TargetCity), Str("Marina")>>)]
      [] kind = "no_city" ->
            [FullListing(id, TargetCity) EXCEPT !.location = List(<<DistrictNode>>)]
      [] kind = "no_location" -> Without(FullListing(id, TargetCity), {"location"})
      [] kind = "no_id" -> Without(FullListing(id, TargetCity), {"objectID"})
      [] kind = "sparse" ->
            Without(FullListing(id, TargetCity), OptionalFields \ {"location"})

(***************************************************************************)
(* The normalize block of price_range_scrape, on the DataFrame built from  *)
(* all_listings.                                                           *)
(***************************************************************************)
Columns(batch) == UNION {DOMAIN batch[i] : i \in DOMAIN batch}
NestedCell(r, c) == IF c \in DOMAIN r THEN r[c] ELSE NaN
ScalarCell(r, c) == IF c \in DOMAIN r THEN r[c] ELSE None
Get(d, k) == IF k \in DOMAIN d THEN d[k] ELSE None

\* lambda x: x[k] if isinstance(x, dict) and k in x else None
DictField(x, k) == IF x.t = "dict" /\ k \in DOMAIN x.v THEN x.v[k] ELSE None

Raised == [raised |-> TRUE, id |-> None, name |-> None]
Found(id, name) == [raised |-> FALSE, id |-> id, name |-> name]

\* the loop returning the last element of the level, not the first
WalkNodesLast(items, i, level) ==
    LET hits == {j \in i..Len(items) :
                   /\ items[j].t = "dict"
                   /\ "level" \in DOMAIN items[j].v
                   /\ items[j].v.level = level}
    IN  IF hits = {} THEN Found(None, None)
        ELSE LET j == CHOOSE k \in hits : \A h \in hits : h <= k
             IN  Found(Get(items[j].v, "externalID"), Get(items[j].v, "name"))

\* the for loop of extract_location_details from element i on: loc.get on an
\* element that is no mapping raises AttributeError
RECURSIVE WalkNodes(_, _, _)
WalkNodes(items, i, level) ==
    IF i > Len(items) THEN Found(None, None)
    ELSE IF items[i].t # "dict" THEN Raised
    ELSE IF "level" \in DOMAIN items[i].v /\ items[i].v.level = level
         THEN Found(Get(items[i].v, "externalID"), Get(items[i].v, "name"))
    ELSE WalkNodes(items, i + 1, level)

extract_location_details(location, level) ==
    IF location.t = "list" THEN WalkNodes(location.v, 1, level) ELSE Found(None, None)

extract_category_details(category, level) ==
    IF category.t = "list" THEN WalkNodes(category.v, 1, level) ELSE Found(None, None)

\* pd.to_datetime(x, unit='s') of one cell
ToDatetime(x) == "ts-" \o ToString(x)
EpochCell(r, c) == IF c \in DOMAIN r THEN ToDatetime(r[c]) ELSE None

BayutLink(x) ==
    IF x # None THEN "https://www.bayut.com/property/details-" \o x \o ".html" ELSE None

\* the columns the block reads with df[...] before the projection, in the
\* order it reads them: a column no listing of the batch holds is a KeyError
ReadColumns ==
    {"geography", "location", "category", "agency", "extraFields",
     "createdAt", "updatedAt", "externalID"}

\* the raw columns named by desired_columns (area and plotArea before the rename)
DesiredRawColumns == ScalarColumns \ {"externalID"}

desired_columns ==
    <<"objectID", "DldPropertySK", "referenceNumber", "permitNumber", "title",
      "BayutLink", "purpose", "price", "rentFrequency", "rooms", "baths",
      "area (sqm)", "plotArea (sqm)", "furnishingStatus", "amenities",
      "CategoryTypeName", "CategorySubtypeName", "CityName", "DistrictID",
      "DistrictName", "NeighborhoodName", "BuildingName", "DldBuildingNK",
      "latitude", "longitude", "createdAt", "updatedAt", "contactName",
      "phoneNumber", "AgencyName", "completionStatus", "scrape_date">>

ScrapeDate == "scrape-date"

Renamed(c) ==
    IF c = "area (sqm)" THEN "area" ELSE IF c = "plotArea (sqm)" THEN "plotArea" ELSE c

\* does any of the df.apply calls raise on listing r
ExtractionRaises(r) ==
    \/ \E level \in 1..4 : extract_location_details(NestedCell(r, "location"), level).raised
    \/ \E level \in 0..1 : extract_category_details(NestedCell(r, "category"), level).raised

\* one cell of the projected frame
NormalizedCell(r, c) ==
    CASE c = "DldPropertySK" -> DictField(NestedCell(r, "extraFields"), "dldPropertySK")
      [] c = "DldBuildingNK" -> DictField(NestedCell(r, "extraFields"), "dldBuildingNK")
      [] c = "BayutLink" -> BayutLink(ScalarCell(r, "externalID"))
      [] c = "CategoryTypeName" -> extract_category_details(NestedCell(r, "category"), 0).name
      [] c = "CategorySubtypeName" -> extract_category_details(NestedCell(r, "category"), 1).name
      [] c = "CityName" -> extract_location_details(NestedCell(r, "location"), 1).name
      [] c = "DistrictID" -> extract_location_details(NestedCell(r, "location"), 2).id
      [] c = "DistrictName" -> extract_location_details(NestedCell(r, "location"), 2).name
      [] c = "NeighborhoodName" -> extract_location_details(NestedCell(r, "location"), 3).name
      [] c = "BuildingName" -> extract_location_details(NestedCell(r, "location"), 4).name
      [] c = "latitude" -> DictField(NestedCell(r, "geography"), "lat")
      [] c = "longitude" -> DictField(NestedCell(r, "geography"), "lng")
      [] c = "createdAt" -> EpochCell(r, "createdAt")
      [] c = "updatedAt" -> EpochCell(r, "updatedAt")
      [] c = "AgencyName" -> DictField(NestedCell(r, "agency"), "name")
      [] c = "scrape_date" -> ScrapeDate
      [] OTHER -> ScalarCell(r, Renamed(c))

NormalizedRecord(r) ==
    [c \in {desired_columns[i] : i \in DOMAIN desired_columns} |-> NormalizedCell(r, c)]

\* does the block raise on the batch: a missing column (KeyError) or an
\* extraction that raises on some listing
NormalizeRaises(batch) ==
    \/ ~(ReadColumns \subseteq Columns(batch))
    \/ ~(DesiredRawColumns \subseteq Columns(batch))
    \/ \E i \in DOMAIN batch : ExtractionRaises(batch[i])

\* no filter on the city
SelectAll(rows, city) == rows

RECURSIVE SelectSeq2(_, _)
\* df[df['CityName'] == 'Dubai'] on the rows, keeping their order
SelectSeq2(rows, city) ==
    IF rows = <<>> THEN <<>>
    ELSE IF Head(rows).CityName = city
         THEN <<Head(rows)>> \o SelectSeq2(Tail(rows), city)
         ELSE SelectSeq2(Tail(rows), city)

\* the rows df.to_csv writes for a batch the block does not raise on
NormalizedRows(batch) ==
    SelectSeq2([i \in DOMAIN batch |-> NormalizedRecord(batch[i])], TargetCity)

(***************************************************************************)
(* The durable sink: a folder maps the name of every file it holds to the  *)
(* file's rows.  to_csv writes a null cell as the empty string and         *)
(* read_csv reads an empty cell as null.                                   *)
(***************************************************************************)
EmptyFolder == [n \in {} |-> <<>>]
CsvCell(x) == IF x = None THEN "" ELSE x
ParsedCell(x) == IF x = "" THEN None ELSE x
ToCsv(rows) == [i \in DOMAIN rows |-> [c \in DOMAIN rows[i] |-> CsvCell(rows[i][c])]]
ReadCsv(file) == [i \in DOMAIN file |-> [c \in DOMAIN file[i] |-> ParsedCell(file[i][c])]]

\* bayut_listings_{label}_pages_{max_pages}.csv
PartitionFile(label) == "bayut_listings_" \o label \o "_pages_" \o ToString(MaxPagesArg) \o ".csv"
\* Bayut-all_listings-rent_{scraping_date}.csv, in the folder it is built from
ConsolidatedFile == "Bayut-all_listings-rent_" \o ScrapeDate \o ".csv"
PFFile == "property_listings-rent-300plus.csv"

\* the orders glob.glob may list the files of a folder in
GlobOrders(files) ==
    {o \in [1..Cardinality(files) -> files] : \A i, j \in DOMAIN o : i # j => o[i] # o[j]}

RECURSIVE Concat(_)
\* pd.concat of the frames, in the order given
Concat(frames) == IF frames = <<>> THEN <<>> ELSE Head(frames) \o Concat(Tail(frames))

\* the frame combine_csv_files builds when glob lists the files in this order
CombinedFrame(folder, order) == Concat([i \in DOMAIN order |-> ReadCsv(folder[order[i]])])

(***************************************************************************)
(* The source stubs.  A response is one of a few batch shapes; the         *)
(* listing in slot k of page p of partition i is unlike every other.       *)
(***************************************************************************)
BatchShapes == {<<>>, <<"dubai", "other">>, <<"dubai", "malformed">>}

ListingId(i, p, k) == ToString(i) \o "." \o ToString(p) \o "." \o ToString(k)

Hits(shape, i, p) == [k \in DOMAIN shape |-> MakeListing(shape[k], ListingId(i, p, k))]

PFBatchShapes == {<<>>, <<"with_id", "null_id">>, <<"with_id">>}

\* one element of searchResult.listings
PFListing(kind, id) ==
    [property |-> Dict([id |-> IF kind = "with_id" THEN id ELSE None,
                        title |-> "title-" \o id])]

PFHits(shape, p) == [k \in DOMAIN shape |-> PFListing(shape[k], ListingId(0, p, k))]

\* pd.json_normalize of one listing: the nested property mapping becomes
\* the columns property.<key>
JsonNormalize(r) ==
    [c \in {"property." \o k : k \in DOMAIN r.property.v} |->
        r.property.v[CHOOSE k \in DOMAIN r.property.v : "property." \o k = c]]

RECURSIVE NotNullId(_)
\* df[df['property.id'].notnull()]
NotNullId(rows) ==
    IF rows = <<>> THEN <<>>
    ELSE IF Head(rows)["property.id"] # None
         THEN <<Head(rows)>> \o NotNullId(Tail(rows))
         ELSE NotNullId(Tail(rows))

\* the rows scrape_properties writes
PFRows(batch) ==
    LET df == [i \in DOMAIN batch |-> JsonNormalize(batch[i])]
    IN  IF "property.id" \in Columns(df) THEN NotNullId(df) ELSE df

\* the partitions the run iterates over
Plan == SubSeq(price_ranges, 1, NumPartitions)
PlanLabels == [i \in DOMAIN Plan |-> Plan[i].label]

VARIABLES
    script,        \* which program runs: "Bayut", "PropertyFinder" or "Planner"
    pc,            \* the position of the running program
    exception,     \* the exception that ended the program, or None
    price,         \* Planner: the price of the listing looked up
    matched,       \* Planner: the partitions whose filter the price satisfies
    part,          \* price_range_scrape: index of the current price_range
    page,          \* price_range_scrape: the page of the for loop
    attempt,       \* _make_request: the attempt of the for loop
    call,          \* _make_request: what the current call did so far
    result,        \* _make_request: how the last call ended
    listings,      \* the batch the last fetch returned
    all_listings,  \* the listings collected by the current fetch loop
    requested,     \* the page indices the current fetch loop requested
    responses,     \* the batches the current fetch loop got back
    started,       \* the labels of the partitions started, in order
    errors,        \* the labels whose partition ended in the except clause
    folder,        \* the output folder
    outputs,       \* the frames combine_csv_files built, one per call
    page_number,   \* scrape_properties
    retry_count,   \* scrape_properties
    slept,         \* the seconds slept since the last network request (-1: none yet)
    gap,           \* the seconds slept between the last two network requests (-1: none yet)
    posts,         \* price_range_scrape: the HTTP attempts made for the current partition
    walk           \* Walker: the arguments and the result of a hierarchy walk

planVars == <<price, matched, walk>>
clockVars == <<slept, gap, posts>>
requestVars == <<attempt, call, result>>
fetchVars == <<listings, all_listings, requested, responses>>
partitionVars == <<part, page, started, errors>>
pfVars == <<page_number, retry_count>>
vars == <<script, pc, exception, price, matched, part, page, attempt, call, result,
          listings, all_listings, requested, responses, started, errors, folder,
          outputs, page_number, retry_count, slept, gap, posts, walk>>

\* no hierarchy walk is looked at
NoWalk == [fn |-> "none", value |-> NaN, level |-> 0, result |-> Found(None, None)]

\* the state every program starts from
Idle ==
    /\ exception = None
    /\ matched = {}
    /\ part = 1
    /\ page = 0
    /\ attempt = 0
    /\ call = <<>>
    /\ result = "none"
    /\ listings = <<>>
    /\ all_listings = <<>>
    /\ requested = <<>>
    /\ responses = <<>>
    /\ started = <<>>
    /\ errors = <<>>
    /\ folder = EmptyFolder
    /\ outputs = <<>>
    /\ page_number = FirstPFPage
    /\ retry_count = 0
    /\ slept = -1
    /\ gap = -1
    /\ posts = 0
    /\ walk = NoWalk

(***************************************************************************)
(* Planner: which partitions fetch a listing of a given price.             *)
(***************************************************************************)
PlanInit ==
    /\ script = "Planner"
    /\ pc = "lookup"
    /\ price \in PriceProbes
    /\ Idle

SelectPartitions ==
    /\ script = "Planner"
    /\ pc = "lookup"
    /\ matched' = MatchingPartitions(price)
    /\ pc' = "looked_up"
    /\ UNCHANGED <<script, exception, price, walk, requestVars, fetchVars, partitionVars,
                   folder, outputs, pfVars, clockVars>>

PlanNext == SelectPartitions

SpecPlan == PlanInit /\ [][PlanNext]_vars


(***************************************************************************)
(* Bayut: main, price_range_scrape, scrape_listings, _make_request.        *)
(***************************************************************************)
BayutInit ==
    /\ script = "Bayut"
    /\ pc = "partition_loop"
    /\ price = 0
    /\ Idle

\* for price_range in price_ranges: the next partition starts
StartPartition ==
    /\ script = "Bayut"
    /\ pc = "partition_loop"
    /\ part <= Len(Plan)
    /\ started' = Append(started, Plan[part].label)
    /\ all_listings' = <<>>
    /\ page' = 0
    /\ requested' = <<>>
    /\ responses' = <<>>
    /\ pc' = "page_loop"
    /\ UNCHANGED <<script, exception, planVars, part, errors, requestVars, listings,
                   folder, outputs, pfVars>>
    /\ posts' = 0
    /\ UNCHANGED <<slept, gap>>

\* the plan is exhausted: price_range_scrape returns to main
FinishScrape ==
    /\ script = "Bayut"
    /\ pc = "partition_loop"
    /\ part > Len(Plan)
    /\ pc' = "combine"
    /\ UNCHANGED <<script, exception, planVars, partitionVars, requestVars, fetchVars,
                   folder, outputs, pfVars>>
    /\ UNCHANGED clockVars

\* for page in range(max_pages): scrape_listings is called for the page
RequestPage ==
    /\ script = "Bayut"
    /\ pc = "page_loop"
    /\ page < MaxPagesArg
    /\ requested' = Append(requested, page)
    /\ attempt' = 0
    /\ call' = <<>>
    /\ result' = "none"
    /\ pc' = "request"
    /\ UNCHANGED <<script, exception, planVars, partitionVars, listings, all_listings,
                   responses, folder, outputs, pfVars>>
    /\ UNCHANGED clockVars

\* range(max_pages) is exhausted
PagesExhausted ==
    /\ script = "Bayut"
    /\ pc = "page_loop"
    /\ page >= MaxPagesArg
    /\ pc' = "save"
    /\ UNCHANGED <<script, exception, planVars, partitionVars, requestVars, fetchVars,
                   folder, outputs, pfVars>>
    /\ UNCHANGED clockVars

\* a network request goes out: what was slept since the one before it is the
\* gap between the two, and the caller then sleeps for seconds
Requested(seconds) ==
    /\ gap' = slept
    /\ slept' = seconds

\* time.sleep(seconds)
Sleeps(seconds) ==
    /\ slept' = slept + seconds
    /\ UNCHANGED gap

\* scrape_listings returns batch to the page loop
Returned(batch) ==
    /\ listings' = batch
    /\ responses' = Append(responses, batch)
    /\ pc' = "got_listings"

\* an attempt of _make_request succeeds: the response's hits are returned
AttemptSucceeds ==
    /\ script = "Bayut"
    /\ pc = "request"
    /\ attempt < max_retries
    /\ \E shape \in BatchShapes : Returned(Hits(shape, part, page))
    /\ call' = Append(call, "post_ok")
    /\ result' = "returned"
    /\ UNCHANGED <<script, exception, planVars, partitionVars, attempt, all_listings,
                   requested, folder, outputs, pfVars>>
    /\ Requested(0)
    /\ posts' = posts + 1

\* if attempt < max_retries - 1 fails: the attempt was the last one
LastAttemptOffByOne(a) == a >= max_retries
LastAttempt(a) == ~(a < max_retries - 1)

\* an attempt of _make_request fails with a RequestException: it sleeps and
\* tries again, or re-raises, and then scrape_listings returns []
AttemptFails ==
    /\ script = "Bayut"
    /\ pc = "request"
    /\ attempt < max_retries
    /\ IF LastAttempt(attempt)
       THEN /\ call' = Append(call, "post_fail")
            /\ result' = "raised"
            /\ Returned(<<>>)
            /\ UNCHANGED attempt
       ELSE /\ call' = call \o <<"post_fail", "sleep">>
            /\ attempt' = attempt + 1
            /\ IF attempt + 1 < max_retries
               THEN /\ UNCHANGED <<pc, listings, responses>>
                    /\ result' = "none"
               ELSE \* the for loop ends and the call returns None
                    /\ result' = "fell_through"
                    /\ Returned(<<>>)
    /\ UNCHANGED <<script, exception, planVars, partitionVars, all_listings,
                   requested, folder, outputs, pfVars>>
    /\ Requested(IF LastAttempt(attempt) THEN 0 ELSE retry_delay * (attempt + 1))
    /\ posts' = posts + 1

\* an attempt ends in an exception that is no RequestException (a body that
\* is no JSON mapping): nothing retries it and scrape_listings returns []
AttemptBreaks ==
    /\ script = "Bayut"
    /\ pc = "request"
    /\ attempt < max_retries
    /\ call' = Append(call, "post_error")
    /\ result' = "raised"
    /\ Returned(<<>>)
    /\ UNCHANGED <<script, exception, planVars, partitionVars, attempt, all_listings,
                   requested, folder, outputs, pfVars>>
    /\ Requested(0)
    /\ posts' = posts + 1

\* all_listings.extend(listings)
ExtendPrepends(all, batch) == batch \o all
Extend(all, batch) == all \o batch

\* if not listings: break
NoListingsNever(batch) == FALSE
NoListings(batch) == batch = <<>>

\* the page loop ends on an empty page
EmptyPage ==
    /\ script = "Bayut"
    /\ pc = "got_listings"
    /\ NoListings(listings)
    /\ pc' = "save"
    /\ UNCHANGED <<script, exception, planVars, partitionVars, requestVars, fetchVars,
                   folder, outputs, pfVars>>
    /\ UNCHANGED clockVars

\* for page in range(max_pages): the index after p
NextPageSkips(p) == p + 2
NextPage(p) == p + 1

\* a page with listings is collected, the loop sleeps and goes on
CollectPage ==
    /\ script = "Bayut"
    /\ pc = "got_listings"
    /\ ~NoListings(listings)
    /\ all_listings' = Extend(all_listings, listings)
    /\ page' = NextPage(page)
    /\ pc' = "page_loop"
    /\ UNCHANGED <<script, exception, planVars, part, started, errors, requestVars,
                   listings, requested, responses, folder, outputs, pfVars>>
    /\ Sleeps(PageDelay)
    /\ UNCHANGED posts

\* where the run goes after the except clause of the partition loop
PartitionErrorPropagates == "raised"
AfterPartitionError == "partition_loop"

\* the partition ends in the except clause: the error is logged
PartitionFailed ==
    /\ errors' = Append(errors, Plan[part].label)
    /\ pc' = AfterPartitionError
    /\ exception' = IF AfterPartitionError = "raised" THEN "Exception" ELSE None
    /\ part' = part + 1
    /\ UNCHANGED folder

\* if all_listings is empty: only a warning
SaveNothing ==
    /\ script = "Bayut"
    /\ pc = "save"
    /\ all_listings = <<>>
    /\ part' = part + 1
    /\ pc' = "partition_loop"
    /\ UNCHANGED <<script, exception, planVars, page, started, errors, requestVars,
                   fetchVars, folder, outputs, pfVars>>
    /\ UNCHANGED clockVars

\* the normalize block raises
SaveRaises ==
    /\ script = "Bayut"
    /\ pc = "save"
    /\ all_listings # <<>>
    /\ NormalizeRaises(all_listings)
    /\ PartitionFailed
    /\ UNCHANGED <<script, planVars, page, started, requestVars, fetchVars, outputs,
                   pfVars>>
    /\ UNCHANGED clockVars

\* the rows of the target city are written to the partition's file
SaveWrites ==
    /\ script = "Bayut"
    /\ pc = "save"
    /\ all_listings # <<>>
    /\ ~NormalizeRaises(all_listings)
    /\ folder' = (PartitionFile(Plan[part].label) :> ToCsv(NormalizedRows(all_listings)))
                    @@ folder
    /\ part' = part + 1
    /\ pc' = "partition_loop"
    /\ UNCHANGED <<script, exception, planVars, page, started, errors, requestVars,
                   fetchVars, outputs, pfVars>>
    /\ UNCHANGED clockVars

\* df.to_csv raises (the sink is unwritable)
SaveWriteFails ==
    /\ script = "Bayut"
    /\ pc = "save"
    /\ all_listings # <<>>
    /\ ~NormalizeRaises(all_listings)
    /\ PartitionFailed
    /\ UNCHANGED <<script, planVars, page, started, requestVars, fetchVars, outputs,
                   pfVars>>
    /\ UNCHANGED clockVars

\* combine_csv_files finds no file: a warning, and nothing is written
CombineNothing ==
    /\ DOMAIN folder = {}
    /\ outputs' = Append(outputs, [written |-> FALSE, rows |-> <<>>])
    /\ UNCHANGED folder

\* combine_csv_files reads the files in glob's order and writes the frame
CombineFiles ==
    /\ DOMAIN folder # {}
    /\ \E order \in GlobOrders(DOMAIN folder) :
          /\ outputs' = Append(outputs, [written |-> TRUE,
                                         rows |-> CombinedFrame(folder, order)])
          /\ folder' = (ConsolidatedFile :> ToCsv(CombinedFrame(folder, order))) @@ folder

\* main consolidates the output folder
MainCombineNothing ==
    /\ script = "Bayut"
    /\ pc = "combine"
    /\ CombineNothing
    /\ pc' = "exit"
    /\ UNCHANGED <<script, exception, planVars, partitionVars, requestVars, fetchVars,
                   pfVars>>
    /\ UNCHANGED clockVars

MainCombineFiles ==
    /\ script = "Bayut"
    /\ pc = "combine"
    /\ CombineFiles
    /\ pc' = "exit"
    /\ UNCHANGED <<script, exception, planVars, partitionVars, requestVars, fetchVars,
                   pfVars>>
    /\ UNCHANGED clockVars

\* the steps of price_range_scrape
ScrapeNext ==
    \/ StartPartition
    \/ FinishScrape
    \/ RequestPage
    \/ PagesExhausted
    \/ AttemptSucceeds
    \/ AttemptFails
    \/ AttemptBreaks
    \/ EmptyPage
    \/ CollectPage
    \/ SaveNothing
    \/ SaveRaises
    \/ SaveWrites
    \/ SaveWriteFails

BayutNext ==
    \/ ScrapeNext
    \/ MainCombineNothing
    \/ MainCombineFiles

(***************************************************************************)
(* PropertyFinder: scrape_properties and fetch_listings_from_page.         *)
(***************************************************************************)
PFInit ==
    /\ script = "PropertyFinder"
    /\ pc = "fetch"
    /\ price = 0
    /\ Idle

\* fetch_listings_from_page returns batch (None counts as no listings)
PFReturned(batch) ==
    /\ requested' = Append(requested, page_number)
    /\ listings' = batch
    /\ responses' = Append(responses, batch)
    /\ pc' = "got_listings"
    /\ UNCHANGED exception

\* requests.get answers 200 with the listings of the page; the source has
\* listings on its first SourcePages pages only
PFFetchListings ==
    /\ script = "PropertyFinder"
    /\ pc = "fetch"
    /\ \E shape \in PFBatchShapes :
          /\ shape # <<>> => page_number < FirstPFPage + SourcePages
          /\ PFReturned(PFHits(shape, page_number))
    /\ UNCHANGED <<script, planVars, partitionVars, requestVars, all_listings, folder,
                   outputs, pfVars>>
    /\ Requested(0)
    /\ UNCHANGED posts

\* a status other than 200, or a page without the __NEXT_DATA__ script:
\* fetch_listings_from_page returns None
PFFetchNone ==
    /\ script = "PropertyFinder"
    /\ pc = "fetch"
    /\ PFReturned(<<>>)
    /\ UNCHANGED <<script, planVars, partitionVars, requestVars, all_listings, folder,
                   outputs, pfVars>>
    /\ Requested(0)
    /\ UNCHANGED posts

\* requests.get raises (no connection, a timeout): nothing catches it
PFFetchRaises ==
    /\ script = "PropertyFinder"
    /\ pc = "fetch"
    /\ requested' = Append(requested, page_number)
    /\ exception' = "RequestException"
    /\ pc' = "raised"
    /\ UNCHANGED <<script, planVars, partitionVars, requestVars, listings, all_listings,
                   responses, folder, outputs, pfVars>>
    /\ Requested(0)
    /\ UNCHANGED posts

\* if retry_count >= 3: break
PFGiveUpAtOnce(count) == count >= 1
PFGiveUp(count) == count >= PFRetryLimit

\* if not listings: count the retry, then stop or sleep and fetch the page again
PFEmptyPage ==
    /\ script = "PropertyFinder"
    /\ pc = "got_listings"
    /\ NoListings(listings)
    /\ retry_count' = retry_count + 1
    /\ pc' = IF PFGiveUp(retry_count + 1) THEN "save" ELSE "fetch"
    /\ UNCHANGED <<script, exception, planVars, partitionVars, requestVars, fetchVars,
                   folder, outputs, page_number>>
    /\ Sleeps(IF PFGiveUp(retry_count + 1) THEN 0 ELSE PFRetryDelay)
    /\ UNCHANGED posts

\* all_listings.extend(listings)
PFExtendPrepends(all, batch) == batch \o all
PFExtend(all, batch) == all \o batch

\* a page with listings: the counter is reset and the cursor advances
PFCollectPage ==
    /\ script = "PropertyFinder"
    /\ pc = "got_listings"
    /\ ~NoListings(listings)
    /\ retry_count' = 0
    /\ all_listings' = PFExtend(all_listings, listings)
    /\ page_number' = page_number + 1
    /\ pc' = "fetch"
    /\ UNCHANGED <<script, exception, planVars, partitionVars, requestVars, listings,
                   requested, responses, folder, outputs>>
    /\ Sleeps(PFPageDelay)
    /\ UNCHANGED posts

\* nothing was scraped: "No data scraped."
PFSaveNothing ==
    /\ script = "PropertyFinder"
    /\ pc = "save"
    /\ all_listings = <<>>
    /\ pc' = "exit"
    /\ UNCHANGED <<script, exception, planVars, partitionVars, requestVars, fetchVars,
                   folder, outputs, pfVars>>
    /\ UNCHANGED clockVars

\* the rows with an id are written
PFSaveWrites ==
    /\ script = "PropertyFinder"
    /\ pc = "save"
    /\ all_listings # <<>>
    /\ folder' = (PFFile :> ToCsv(PFRows(all_listings))) @@ folder
    /\ pc' = "exit"
    /\ UNCHANGED <<script, exception, planVars, partitionVars, requestVars, fetchVars,
                   outputs, pfVars>>
    /\ UNCHANGED clockVars

\* df.to_csv raises (Output/PropertyFinder is missing or unwritable)
PFSaveWriteFails ==
    /\ script = "PropertyFinder"
    /\ pc = "save"
    /\ all_listings # <<>>
    /\ exception' = "OSError"
    /\ pc' = "raised"
    /\ UNCHANGED <<script, planVars, partitionVars, requestVars, fetchVars, folder,
                   outputs, pfVars>>
    /\ UNCHANGED clockVars

PFNext ==
    \/ PFFetchListings
    \/ PFFetchNone
    \/ PFFetchRaises
    \/ PFEmptyPage
    \/ PFCollectPage
    \/ PFSaveNothing
    \/ PFSaveWrites
    \/ PFSaveWriteFails

(***************************************************************************)
(* Consolidation on its own: combine_csv_files called again and again on   *)
(* an output folder that price_range_scrape left behind.                   *)
(***************************************************************************)
RECURSIVE PagesOf(_, _)
\* what a partition collects from its first n pages when each holds a
\* listing of the target city and one of another city
PagesOf(i, n) ==
    IF n = 0 THEN <<>> ELSE PagesOf(i, n - 1) \o Hits(<<"dubai", "other">>, i, n - 1)

\* the file of partition i after a run: none (n = -1), or the rows of n
\* collected pages (n = 0: a page of listings of other cities only, so no row)
UnitChoices == (-1)..MaxPagesArg
UnitRows(i, n) ==
    IF n = 0 THEN ToCsv(NormalizedRows(Hits(<<"other">>, i, 0)))
    ELSE ToCsv(NormalizedRows(PagesOf(i, n)))

\* the folder in which partition i has the file choice[i] stands for
FolderOf(choice) ==
    [f \in {PartitionFile(PlanLabels[i]) : i \in {j \in DOMAIN Plan : choice[j] >= 0}} |->
        LET i == CHOOSE j \in DOMAIN Plan : PartitionFile(PlanLabels[j]) = f
        IN  UnitRows(i, choice[i])]

CombineInit ==
    /\ script = "Consolidate"
    /\ pc = "combine"
    /\ price = 0
    /\ exception = None
    /\ matched = {}
    /\ part = Len(Plan) + 1
    /\ page = 0
    /\ attempt = 0
    /\ call = <<>>
    /\ result = "none"
    /\ listings = <<>>
    /\ all_listings = <<>>
    /\ requested = <<>>
    /\ responses = <<>>
    /\ started = PlanLabels
    /\ errors = <<>>
    /\ \E choice \in [DOMAIN Plan -> UnitChoices] : folder = FolderOf(choice)
    /\ outputs = <<>>
    /\ page_number = FirstPFPage
    /\ retry_count = 0
    /\ slept = -1
    /\ gap = -1
    /\ posts = 0
    /\ walk = NoWalk

ConsolidateNothing ==
    /\ script = "Consolidate"
    /\ Len(outputs) < MaxCombines
    /\ CombineNothing
    /\ UNCHANGED <<script, pc, exception, planVars, partitionVars, requestVars,
                   fetchVars, pfVars>>
    /\ UNCHANGED clockVars

ConsolidateFiles ==
    /\ script = "Consolidate"
    /\ Len(outputs) < MaxCombines
    /\ CombineFiles
    /\ UNCHANGED <<script, pc, exception, planVars, partitionVars, requestVars,
                   fetchVars, pfVars>>
    /\ UNCHANGED clockVars

CombineNext == ConsolidateNothing \/ ConsolidateFiles

(***************************************************************************)
(* The save block on its own: the last partition of a run of               *)
(* price_range_scrape has collected one page, a batch of up to MaxBatch    *)
(* listings of any kind, and the page after it came back empty.  The block *)
(* normalizes and writes the batch, and main consolidates the folder.      *)
(***************************************************************************)
NormalizeKinds ==
    {"dubai", "other", "malformed", "no_city", "no_location", "no_id", "sparse"}

NormalizeShapes == UNION {[1..n -> NormalizeKinds] : n \in 0..MaxBatch}

NormalizeInit ==
    /\ script = "Bayut"
    /\ pc = "save"
    /\ price = 0
    /\ exception = None
    /\ matched = {}
    /\ part = Len(Plan)
    /\ attempt = 0
    /\ call = <<"post_ok">>
    /\ result = "returned"
    /\ listings = <<>>
    /\ \E shape \in NormalizeShapes :
          LET batch == Hits(shape, Len(Plan), 0)
          IN  /\ all_listings = batch
              /\ page = IF batch = <<>> THEN 0 ELSE 1
              /\ requested = IF batch = <<>> THEN <<0>> ELSE <<0, 1>>
              /\ responses = IF batch = <<>> THEN <<batch>> ELSE <<batch, <<>>>>
              /\ posts = IF batch = <<>> THEN 1 ELSE 2
              /\ gap = IF batch = <<>> /\ Len(Plan) = 1 THEN -1
                       ELSE IF batch = <<>> THEN 0 ELSE PageDelay
    /\ started = PlanLabels
    /\ errors = <<>>
    /\ folder = EmptyFolder
    /\ outputs = <<>>
    /\ page_number = FirstPFPage
    /\ retry_count = 0
    /\ slept = 0
    /\ walk = NoWalk

NormalizeNext ==
    \/ SaveNothing
    \/ SaveRaises
    \/ SaveWrites
    \/ SaveWriteFails
    \/ FinishScrape
    \/ MainCombineNothing
    \/ MainCombineFiles

(***************************************************************************)
(* The while loop of scrape_properties against a source that may have      *)
(* listings on every page it is asked for.  The loop is steered by         *)
(* retry_count and by whether listings came back; the pages from PageCap   *)
(* on are not told apart: the cursor stays at PageCap and their listings   *)
(* are not recorded.                                                       *)
(***************************************************************************)
EndlessInit ==
    /\ script = "PropertyFinder, endless source"
    /\ pc = "fetch"
    /\ price = 0
    /\ Idle

\* fetch_listings_from_page returns the listings of the page, or none
EndlessFetch ==
    /\ script = "PropertyFinder, endless source"
    /\ pc = "fetch"
    /\ \E shape \in PFBatchShapes : listings' = PFHits(shape, page_number)
    /\ pc' = "got_listings"
    /\ Requested(0)
    /\ UNCHANGED <<script, exception, planVars, partitionVars, requestVars, all_listings,
                   requested, responses, folder, outputs, pfVars, posts>>

\* requests.get raises: nothing catches it
EndlessFetchRaises ==
    /\ script = "PropertyFinder, endless source"
    /\ pc = "fetch"
    /\ exception' = "RequestException"
    /\ pc' = "raised"
    /\ Requested(0)
    /\ UNCHANGED <<script, planVars, partitionVars, requestVars, fetchVars, folder,
                   outputs, pfVars, posts>>

\* if not listings: count the retry, then break or sleep and continue
EndlessEmptyPage ==
    /\ script = "PropertyFinder, endless source"
    /\ pc = "got_listings"
    /\ NoListings(listings)
    /\ retry_count' = retry_count + 1
    /\ pc' = IF PFGiveUp(retry_count + 1) THEN "save" ELSE "fetch"
    /\ Sleeps(IF PFGiveUp(retry_count + 1) THEN 0 ELSE PFRetryDelay)
    /\ UNCHANGED <<script, exception, planVars, partitionVars, requestVars, fetchVars,
                   folder, outputs, page_number, posts>>

\* a page with listings: the counter is reset and the cursor advances
EndlessCollectPage ==
    /\ script = "PropertyFinder, endless source"
    /\ pc = "got_listings"
    /\ ~NoListings(listings)
    /\ retry_count' = 0
    /\ all_listings' = IF page_number < PageCap THEN PFExtend(all_listings, listings)
                       ELSE all_listings
    /\ page_number' = IF page_number < PageCap THEN page_number + 1 ELSE page_number
    /\ pc' = "fetch"
    /\ Sleeps(PFPageDelay)
    /\ UNCHANGED <<script, exception, planVars, partitionVars, requestVars, listings,
                   requested, responses, folder, outputs, posts>>

EndlessNext ==
    \/ EndlessFetch
    \/ EndlessFetchRaises
    \/ EndlessEmptyPage
    \/ EndlessCollectPage

(***************************************************************************)
(* The hierarchy walks on their own: extract_location_details and          *)
(* extract_category_details are called once on a value and a level.  The   *)
(* value is no list, or a list of up to MaxNodes elements: nodes of the    *)
(* levels 1 to 3, a node without a level, a string.                        *)
(***************************************************************************)
WalkElements ==
    {LocationNode(l, "x-" \o ToString(l) \o n, n) : l \in 1..3, n \in {"a", "b"}}
    \cup {Dict([externalID |-> "x-0", name |-> "no level"]), Str("Marina")}

WalkValues ==
    {NaN} \cup {List(s) : s \in UNION {[1..n -> WalkElements] : n \in 0..MaxNodes}}

WalkLevels == 0..4

WalkInit ==
    /\ script = "Walker"
    /\ pc = "walk"
    /\ price = 0
    /\ exception = None
    /\ matched = {}
    /\ part = 1
    /\ page = 0
    /\ attempt = 0
    /\ call = <<>>
    /\ result = "none"
    /\ listings = <<>>
    /\ all_listings = <<>>
    /\ requested = <<>>
    /\ responses = <<>>
    /\ started = <<>>
    /\ errors = <<>>
    /\ folder = EmptyFolder
    /\ outputs = <<>>
    /\ page_number = FirstPFPage
    /\ retry_count = 0
    /\ slept = -1
    /\ gap = -1
    /\ posts = 0
    /\ \E fn \in {"location", "category"}, value \in WalkValues, level \in WalkLevels :
          walk = [fn |-> fn, value |-> value, level |-> level,
                  result |-> Found(None, None)]

\* extract_location_details(location, level)
WalkLocation ==
    /\ script = "Walker"
    /\ pc = "walk"
    /\ walk.fn = "location"
    /\ walk' = [walk EXCEPT !.result = extract_location_details(walk.value, walk.level)]
    /\ pc' = "walked"
    /\ UNCHANGED <<script, exception, price, matched, partitionVars, requestVars,
                   fetchVars, folder, outputs, pfVars, clockVars>>

\* extract_category_details(category, level)
WalkCategory ==
    /\ script = "Walker"
    /\ pc = "walk"
    /\ walk.fn = "category"
    /\ walk' = [walk EXCEPT !.result = extract_category_details(walk.value, walk.level)]
    /\ pc' = "walked"
    /\ UNCHANGED <<script, exception, price, matched, partitionVars, requestVars,
                   fetchVars, folder, outputs, pfVars, clockVars>>

WalkNext == WalkLocation \/ WalkCategory

(***************************************************************************)
(* The specifications: Spec runs either script, SpecPlan the planner,      *)
(* SpecCombine the consolidation, SpecNormalize the save block.            *)
(* SpecWalk the hierarchy walks.                                           *)
(* SpecEndless is the loop of scrape_properties with an endless source:    *)
(* the interpreter always takes the loop's next step, and every request    *)
(* ends, so the step that is enabled is taken.                             *)
(***************************************************************************)
Init == BayutInit \/ PFInit
Next == BayutNext \/ PFNext
Spec == Init /\ [][Next]_vars
SpecCombine == CombineInit /\ [][CombineNext]_vars
SpecNormalize == NormalizeInit /\ [][NormalizeNext]_vars
SpecWalk == WalkInit /\ [][WalkNext]_vars
SpecEndless == EndlessInit /\ [][EndlessNext]_vars /\ WF_vars(EndlessNext)

(***************************************************************************)
(* The claims.                                                             *)
(***************************************************************************)

\* C1: every price p >= 0 satisfies the filter of at least one entry of
\* price_ranges (the plan has no gap).
PlanCoversEveryPrice == pc = "looked_up" => matched # {}

\* C2: no price satisfies the filters of two different entries of
\* price_ranges (the plan has no overlap).
PlanIsDisjoint == pc = "looked_up" => Cardinality(matched) <= 1

\* C2 witness: the price at which mid_range3 ends and mid_range4 begins has
\* been looked up and is fetched by mid_range4 alone.
AdjacentBandsLookedUp == pc = "looked_up" /\ price = 150001 /\ matched = {8}

\* C3: price_range_scrape starts every partition of the plan once, in the
\* declared order; a partition that ends in an exception does not stop the
\* run, which goes on until the plan is exhausted.
PartitionFailureIsolated ==
    script = "Bayut" =>
        /\ exception = None
        /\ pc # "raised"
        /\ started = SubSeq(PlanLabels, 1, Len(started))
        /\ Len(started) = IF pc \in {"partition_loop", "combine", "exit"} THEN part - 1 ELSE part
        /\ pc \in {"combine", "exit"} => started = PlanLabels
        /\ \A i \in DOMAIN errors : \E j \in DOMAIN started : started[j] = errors[i]
        /\ pc = "partition_loop" => ENABLED (StartPartition \/ FinishScrape)

\* C3 witness: the run ended although its first partition raised.
RunEndedAfterFailedPartition ==
    /\ script = "Bayut"
    /\ pc = "exit"
    /\ errors # <<>>
    /\ errors[1] = PlanLabels[1]
    /\ started = PlanLabels

\* C4: a request that fails at the transport level never propagates out of
\* a fetch run, neither in price_range_scrape nor in scrape_properties.
TransportFailureContained == exception # "RequestException"

Posts(log) == {i \in DOMAIN log : log[i] # "sleep"}
Failures(log) == {i \in DOMAIN log : log[i] = "post_fail"}

\* C5: one call of _make_request makes at most 3 attempts, returns at the
\* first attempt that succeeds, re-raises after the third failed attempt
\* and sleeps only between two attempts.
RetryIsBounded ==
    script = "Bayut" =>
        /\ Cardinality(Posts(call)) <= 3
        /\ \A i \in DOMAIN call :
              /\ call[i] = "post_ok" => i = Len(call) /\ result = "returned"
              /\ call[i] = "sleep" =>
                    /\ i > 1 /\ call[i - 1] = "post_fail"
                    /\ i < Len(call) \/ (pc = "request" /\ result = "none" /\ attempt < 3)
              /\ (call[i] # "sleep" /\ i > 1) => call[i - 1] = "sleep"
        /\ Cardinality(Failures(call)) = 3 => result = "raised"
        /\ (call # <<>> /\ call[Len(call)] = "post_fail") =>
              (result = "raised" /\ Cardinality(Failures(call)) = 3)
        /\ pc = "request" => attempt = Cardinality(Failures(call))

\* C5 witness: a call re-raised after three failed attempts and two sleeps.
ThreeAttemptsFailed ==
    /\ script = "Bayut"
    /\ result = "raised"
    /\ call = <<"post_fail", "sleep", "post_fail", "sleep", "post_fail">>

RowOf(r) == ToCsv(<<NormalizedRecord(r)>>)[1]

\* C6: when extraction raises for one record of a partition's batch, every
\* other fetched record of the partition whose city is the target city is
\* still written to the partition's file.
RecordFailureIsolated ==
    (/\ script = "Bayut"
     /\ pc = "partition_loop"
     /\ part > 1
     /\ \E i \in DOMAIN all_listings : ExtractionRaises(all_listings[i]))
    => \A i \in DOMAIN all_listings :
          (/\ ~ExtractionRaises(all_listings[i])
           /\ NormalizedRecord(all_listings[i]).CityName = TargetCity)
          => /\ PartitionFile(Plan[part - 1].label) \in DOMAIN folder
             /\ \E j \in DOMAIN folder[PartitionFile(Plan[part - 1].label)] :
                   folder[PartitionFile(Plan[part - 1].label)][j] = RowOf(all_listings[i])

\* the source answered the first two requests with listings and every
\* later one with nothing
TwoPagesThenNothing ==
    /\ Len(responses) >= 3
    /\ responses[1] # <<>>
    /\ responses[2] # <<>>
    /\ \A i \in 3..Len(responses) : responses[i] = <<>>

RECURSIVE TrailingEmpties(_)
TrailingEmpties(s) ==
    IF s = <<>> \/ s[Len(s)] # <<>> THEN 0 ELSE 1 + TrailingEmpties(SubSeq(s, 1, Len(s) - 1))

NonEmpties(s) == Cardinality({i \in DOMAIN s : s[i] # <<>>})

\* C8: in scrape_properties an empty or failed answer followed by listings
\* does not end the fetch: the loop stops only after 3 consecutive empty
\* answers, the counter is back to 0 after every page with listings, and the
\* cursor advances only after a page with listings.
TransientEmptiesTolerated ==
    script = "PropertyFinder" =>
        /\ (pc \in {"save", "exit"} \/ exception = "OSError") =>
              /\ Len(responses) >= 3
              /\ \A i \in (Len(responses) - 2)..Len(responses) : responses[i] = <<>>
        /\ pc = "fetch" => retry_count = TrailingEmpties(responses) /\ retry_count < 3
        /\ page_number = FirstPFPage + NonEmpties(responses)
                            - (IF pc = "got_listings" /\ listings # <<>> THEN 1 ELSE 0)

\* C8 witness: the run ended and had an empty answer followed by listings.
EmptyThenListings ==
    /\ script = "PropertyFinder"
    /\ pc = "exit"
    /\ \E i \in DOMAIN responses :
          i < Len(responses) /\ responses[i] = <<>> /\ responses[i + 1] # <<>>

\* the partition units of the folder, in the order of price_ranges
DeclaredUnits ==
    SelectSeq([i \in DOMAIN PlanLabels |-> PartitionFile(PlanLabels[i])],
              LAMBDA f : f \in DOMAIN folder)

\* C9: combine_csv_files yields the records of the partition units in the
\* order of price_ranges, each unit in fetch order, as many records as the
\* units hold together.
ConsolidatedInDeclaredOrder ==
    (Len(outputs) >= 1 /\ outputs[1].written) =>
        outputs[1].rows = CombinedFrame(folder, DeclaredUnits)

Occurrences(row, rows) == Cardinality({j \in DOMAIN rows : rows[j] = row})

\* C10: consolidating the same output folder again yields the dataset of
\* the first consolidation, with every record of every partition unit once.
ConsolidationRebuildable ==
    Len(outputs) >= 2 =>
        /\ outputs[2] = outputs[1]
        /\ \A u \in DOMAIN DeclaredUnits :
              \A j \in DOMAIN folder[DeclaredUnits[u]] :
                 Occurrences(ReadCsv(folder[DeclaredUnits[u]])[j], outputs[2].rows) = 1

(***************************************************************************)
(* C11: a call of combine_csv_files on a folder that holds no file fails   *)
(* with an IO error its caller sees and writes no consolidated file; every *)
(* other call succeeds and leaves the consolidated file.                   *)
(***************************************************************************)
NothingToMergeIsAnError ==
    (script = "Consolidate" /\ outputs # <<>>) =>
        IF DOMAIN folder = {}
        THEN exception # None /\ ~outputs[Len(outputs)].written
        ELSE exception = None /\ outputs[Len(outputs)].written
                              /\ ConsolidatedFile \in DOMAIN folder

(***************************************************************************)
(* C12: at least one second is slept between any two consecutive network   *)
(* requests of a run: between the attempts of _make_request, between the   *)
(* pages of a partition, between the last request of a partition and the   *)
(* first of the next, and between the tries of a page in scrape_properties.*)
(***************************************************************************)
RequestsAreThrottled == gap = -1 \/ gap >= 1

\* the names of the level-1 nodes of the location of a fetched listing
LevelOneNames(r) ==
    IF "location" \in DOMAIN r /\ r.location.t = "list"
    THEN {r.location.v[i].v.name :
            i \in {j \in DOMAIN r.location.v :
                     /\ r.location.v[j].t = "dict"
                     /\ r.location.v[j].v.level = 1}}
    ELSE {}

\* the rows of every file of the folder and of every consolidated frame
WrittenRows ==
    UNION {{folder[f][i] : i \in DOMAIN folder[f]} : f \in DOMAIN folder}
    \cup UNION {{ReadCsv(outputs[n].rows)[i] : i \in DOMAIN outputs[n].rows} :
                  n \in DOMAIN outputs}

(***************************************************************************)
(* C13: every record price_range_scrape writes to a partition file has     *)
(* CityName 'Dubai'; a fetched record whose level-1 location name is       *)
(* another one, or absent, is in the fetched batch but in no written file  *)
(* and not in the consolidated dataset built from the files of the run.    *)
(***************************************************************************)
OnlyTargetCityWritten ==
    script = "Bayut" =>
        /\ \A row \in WrittenRows : row.CityName = TargetCity
        /\ \A k \in DOMAIN all_listings :
              TargetCity \notin LevelOneNames(all_listings[k]) =>
                 \A row \in WrittenRows :
                    row.BayutLink # BayutLink(all_listings[k].externalID)

OtherCitiesLeftOut ==
    /\ script = "Bayut"
    /\ pc = "exit"
    /\ outputs # <<>>
    /\ outputs[1].written
    /\ Len(outputs[1].rows) = 1
    /\ ConsolidatedFile \in DOMAIN folder
    /\ Len(all_listings) = 2
    /\ \E k \in DOMAIN all_listings : LevelOneNames(all_listings[k]) = {}
    /\ \E k \in DOMAIN all_listings : LevelOneNames(all_listings[k]) = {TargetCity}

(***************************************************************************)
(* C14: no record without an identifier reaches a written dataset: a       *)
(* fetched record that has no objectID is dropped by price_range_scrape,   *)
(* and the rest of its batch is normalized and written.                    *)
(***************************************************************************)
NoMissingIdentifierWritten ==
    script = "Bayut" =>
        /\ \A row \in WrittenRows : row.objectID # None /\ row.objectID # ""
        /\ (/\ pc = "partition_loop"
            /\ \E k \in DOMAIN all_listings : "objectID" \notin DOMAIN all_listings[k]
            /\ \A k \in DOMAIN all_listings : ~ExtractionRaises(all_listings[k])
            /\ OptionalFields \subseteq Columns(all_listings))
           => \/ started[Len(started)] \in {errors[i] : i \in DOMAIN errors}
              \/ \A k \in DOMAIN all_listings :
                    (/\ "objectID" \in DOMAIN all_listings[k]
                     /\ TargetCity \in LevelOneNames(all_listings[k]))
                    => RowOf(all_listings[k]) \in WrittenRows

(***************************************************************************)
(* C15: on a batch in which every record has an identifier, the normalize  *)
(* block raises nothing, whichever of geography, location, category,       *)
(* agency, extraFields, createdAt and updatedAt are absent from some or    *)
(* from all of its records, and every absent field is null in the record.  *)
(***************************************************************************)
AbsentFieldsTolerated ==
    (/\ script = "Bayut"
     /\ pc = "save"
     /\ all_listings # <<>>
     /\ \A k \in DOMAIN all_listings :
           /\ ScalarColumns \subseteq DOMAIN all_listings[k]
           /\ ~ExtractionRaises(all_listings[k]))
    => ~NormalizeRaises(all_listings)

(***************************************************************************)
(* C16: every run of scrape_properties terminates, whatever the source     *)
(* answers: the while loop is left, by its break or by an exception.       *)
(***************************************************************************)
ScrapePropertiesTerminates ==
    script = "PropertyFinder, endless source" => <>(pc \in {"save", "raised"})

(***************************************************************************)
(* C17: in every partition of price_range_scrape the pages requested are   *)
(* 0, 1, 2, ... in this order, none skipped and none repeated, and at most *)
(* max_pages of them; the cursor starts again at 0 in every partition.     *)
(* Every page request makes at most 3 HTTP attempts and every partition of *)
(* the plan is started at most once, so the run makes at most              *)
(* partitions x max_pages x 3 attempts.                                    *)
(***************************************************************************)
PageCursorInOrder ==
    script = "Bayut" =>
        /\ requested = [i \in 1..Len(requested) |-> i - 1]
        /\ Len(requested) <= MaxPagesArg
        /\ page <= Len(requested)
        /\ posts <= Len(requested) * max_retries
        /\ started = SubSeq(PlanLabels, 1, Len(started))
        /\ started # <<>> =>
              (Len(started) - 1) * MaxPagesArg * max_retries + posts
                 <= Len(Plan) * MaxPagesArg * max_retries

EveryPageAskedThrice ==
    /\ script = "Bayut"
    /\ part = Len(Plan)
    /\ Len(started) = Len(Plan)
    /\ Len(requested) = MaxPagesArg
    /\ posts = MaxPagesArg * max_retries
    /\ pc = "save"

\* the positions of the nodes of the walked value that have the level asked for
NodesOfLevel ==
    IF walk.value.t # "list" THEN {}
    ELSE {i \in DOMAIN walk.value.v :
            /\ walk.value.v[i].t = "dict"
            /\ "level" \in DOMAIN walk.value.v[i].v
            /\ walk.value.v[i].v.level = walk.level}

\* the walked value is no list, or a sequence of nodes
IsNodeSequence ==
    walk.value.t = "list" => \A i \in DOMAIN walk.value.v : walk.value.v[i].t = "dict"

(***************************************************************************)
(* C18: for a node sequence and a level L, extract_location_details and    *)
(* extract_category_details return the (externalID, name) of the first     *)
(* node, in sequence order, whose level is L, and (null, null) when no     *)
(* node has level L or the value is no list.  So a listing with location   *)
(* nodes at levels 1 and 2 only has its city and district fields set and   *)
(* its neighborhood and building fields null.                              *)
(***************************************************************************)
FirstNodeOfLevel ==
    (script = "Walker" /\ pc = "walked" /\ IsNodeSequence) =>
        /\ IF NodesOfLevel = {} THEN walk.result = Found(None, None)
           ELSE LET first == CHOOSE i \in NodesOfLevel : \A j \in NodesOfLevel : i <= j
                IN  walk.result = Found(walk.value.v[first].v.externalID,
                                        walk.value.v[first].v.name)
        /\ LET row == NormalizedRecord(FullListing("1.0.1", TargetCity))
           IN  /\ row.CityName = TargetCity
               /\ row.DistrictID = "d-7"
               /\ row.DistrictName = "Marina"
               /\ row.NeighborhoodName = None
               /\ row.BuildingName = None

FirstOfTwoNodesReturned ==
    /\ script = "Walker"
    /\ pc = "walked"
    /\ walk.value.t = "list"
    /\ NodesOfLevel = {1, 2}
    /\ walk.value.v[1].v.name # walk.value.v[2].v.name
    /\ walk.result.name = walk.value.v[1].v.name

\* the call of scrape_listings for the last page requested ended in an error
LastPageFailed ==
    /\ script = "Bayut"
    /\ result = "raised"
    /\ requested # <<>>

(***************************************************************************)
(* C19: when the request for page p of a partition fails after its         *)
(* retries, the partition's fetch ends as if the results were exhausted:   *)
(* no page after p is requested, the records of the pages 0 .. p-1 are     *)
(* normalized and written to the partition's file as after an empty page,  *)
(* and the run goes on to the next partition.                              *)
(***************************************************************************)
FailedFetchEndsPartition ==
    LastPageFailed =>
        LET p == requested[Len(requested)]
            label == started[Len(started)]
            file == PartitionFile(label)
        IN  /\ pc \in {"got_listings", "save", "partition_loop", "combine", "exit"}
            /\ exception = None
            /\ page = p
            /\ Len(requested) = p + 1
            /\ Len(responses) = p + 1
            /\ listings = <<>>
            /\ all_listings = Concat(SubSeq(responses, 1, p))
            /\ pc \in {"partition_loop", "combine", "exit"} =>
                  /\ part = Len(started) + 1
                  /\ \/ label \in {errors[i] : i \in DOMAIN errors}
                     \/ IF all_listings = <<>> THEN file \notin DOMAIN folder
                        ELSE /\ file \in DOMAIN folder
                             /\ folder[file] = ToCsv(NormalizedRows(all_listings))
                  /\ (label \in {errors[i] : i \in DOMAIN errors}) => all_listings # <<>>

FirstPageKeptAfterFailure ==
    /\ LastPageFailed
    /\ call = <<"post_fail", "sleep", "post_fail", "sleep", "post_fail">>
    /\ requested = <<0, 1>>
    /\ pc = "partition_loop"
    /\ part = 2
    /\ PartitionFile(started[1]) \in DOMAIN folder
    /\ Len(folder[PartitionFile(started[1])]) = 1
    /\ errors = <<>>

=============================================================================
